---------------------------- MODULE Spec2Model ----------------------------
(***************************************************************************)
(* A model of the Normal distribution of package dist (src/unnamed/        *)
(* part_000) and of the eigen decomposition types of package mat64         *)
(* (src/mat64/eigen.go).                                                   *)
(*                                                                         *)
(* float64 is modelled twice, by what each part of the code needs:         *)
(*   - FitPrior and DLogProbDParam use +, -, *, / and one square root.     *)
(*     They are modelled over the exact extended reals of the form         *)
(*     (n/d)*sqrt(q), with NaN and the two infinities: the values float64  *)
(*     rounds.  Rounding and the sign of zero are not modelled there.      *)
(*   - zQuantile needs ln, sqrt and degree-7 polynomials at 20-digit       *)
(*     coefficients.  It is modelled over a decimal floating point of      *)
(*     four significant digits, every operation rounded to nearest, as     *)
(*     float64 rounds to 53 bits.                                          *)
(***************************************************************************)
EXTENDS Integers, Sequences, FiniteSets, TLC

VARIABLES
    n,      \* the receiver of FitPrior, *Normal: [Mu, Sigma]
    calls,  \* how many calls of Fit / FitPrior have been made on n
    ret,    \* the pair the last successful FitPrior returned, or NoRet
    call,   \* the last call on a Normal: its arguments and its outcome
    esym,   \* an EigenSym value
    eig,    \* an Eigen value
    ecall,  \* the last call on esym or eig and its outcome
    lastOk  \* what the last Factorize on esym and on eig returned

vars == <<n, calls, ret, call, esym, eig, ecall, lastOk>>

---------------------------------------------------------------------------
(* Exact extended reals: [k, n, d, q] is (n/d)*sqrt(q) when k = "fin",     *)
(* with d > 0, gcd(|n|, d) = 1 and q >= 1 squarefree (q = 1: a rational).  *)

RECURSIVE GCD(_, _)
GCD(a, b) == IF b = 0 THEN a ELSE GCD(b, a % b)

Abs(i) == IF i < 0 THEN -i ELSE i

NaN == [k |-> "nan", n |-> 0, d |-> 1, q |-> 1]
PInf == [k |-> "pinf", n |-> 0, d |-> 1, q |-> 1]
NInf == [k |-> "ninf", n |-> 0, d |-> 1, q |-> 1]

\* A value float64 arithmetic on the modelled inputs never produces: the
\* evaluation stops with an error instead of going on with a wrong number.
Unrepresentable == CHOOSE x \in {} : TRUE

Mk(num, den, rad) ==
    IF num = 0 THEN [k |-> "fin", n |-> 0, d |-> 1, q |-> 1]
    ELSE LET g == GCD(Abs(num), Abs(den))
             s == IF den < 0 THEN -1 ELSE 1
         IN [k |-> "fin", n |-> s * (num \div g), d |-> s * (den \div g), q |-> rad]

Z(i) == Mk(i, 1, 1)
Q(num, den) == Mk(num, den, 1)

IsFin(a) == a.k = "fin"
IsZero(a) == a.k = "fin" /\ a.n = 0
Sign(a) ==
    IF a.k = "pinf" THEN 1
    ELSE IF a.k = "ninf" THEN -1
    ELSE IF a.n > 0 THEN 1 ELSE IF a.n < 0 THEN -1 ELSE 0
InfOf(s) == IF s > 0 THEN PInf ELSE NInf

Neg(a) ==
    IF a.k = "nan" THEN NaN
    ELSE IF a.k = "pinf" THEN NInf
    ELSE IF a.k = "ninf" THEN PInf
    ELSE [a EXCEPT !.n = -a.n]

Add(a, b) ==
    IF a.k = "nan" \/ b.k = "nan" THEN NaN
    ELSE IF ~IsFin(a) THEN (IF ~IsFin(b) /\ a.k # b.k THEN NaN ELSE a)
    ELSE IF ~IsFin(b) THEN b
    ELSE IF a.n = 0 THEN b
    ELSE IF b.n = 0 THEN a
    ELSE IF a.q = b.q
         THEN Mk(a.n * (b.d \div GCD(a.d, b.d)) + b.n * (a.d \div GCD(a.d, b.d)),
                 a.d * (b.d \div GCD(a.d, b.d)), a.q)
    ELSE Unrepresentable

Sub(a, b) == Add(a, Neg(b))

Mul(a, b) ==
    IF a.k = "nan" \/ b.k = "nan" THEN NaN
    ELSE IF ~IsFin(a) \/ ~IsFin(b)
         THEN (IF IsZero(a) \/ IsZero(b) THEN NaN ELSE InfOf(Sign(a) * Sign(b)))
    ELSE Mk((a.n \div GCD(Abs(a.n), b.d)) * (b.n \div GCD(Abs(b.n), a.d)) * GCD(a.q, b.q),
            (a.d \div GCD(Abs(b.n), a.d)) * (b.d \div GCD(Abs(a.n), b.d)),
            (a.q \div GCD(a.q, b.q)) * (b.q \div GCD(a.q, b.q)))

\* 1 / ((n/d)*sqrt(q)) = (d / (n*q)) * sqrt(q), for a finite a # 0
Inv(a) == Mk(a.d, a.n * a.q, a.q)

Div(a, b) ==
    IF a.k = "nan" \/ b.k = "nan" THEN NaN
    ELSE IF ~IsFin(b) THEN (IF ~IsFin(a) THEN NaN ELSE Z(0))
    ELSE IF IsZero(b) THEN (IF IsZero(a) THEN NaN ELSE InfOf(Sign(a)))
    ELSE IF ~IsFin(a) THEN InfOf(Sign(a) * Sign(b))
    ELSE Mul(a, Inv(b))

\* the integer square root of k, by bisection between lo and hi
RECURSIVE ISqrtBetween(_, _, _)
ISqrtBetween(k, lo, hi) ==
    IF hi - lo <= 1 THEN lo
    ELSE IF ((lo + hi) \div 2) * ((lo + hi) \div 2) <= k
         THEN ISqrtBetween(k, (lo + hi) \div 2, hi)
         ELSE ISqrtBetween(k, lo, (lo + hi) \div 2)

ISqrt(k) == ISqrtBetween(k, 0, 46341)

\* the largest s with s*s dividing k
SquarePart(k) ==
    CHOOSE s \in 1..ISqrt(k) :
        /\ k % (s * s) = 0
        /\ \A t \in (s + 1)..ISqrt(k) : k % (t * t) # 0

\* math.Sqrt: with n = sn*sn*rn and d = sd*sd*rd, n and d coprime,
\* sqrt(n/d) = (sn / (sd*rd)) * sqrt(rn*rd)
Sqrt(a) ==
    IF a.k = "nan" \/ a.k = "ninf" THEN NaN
    ELSE IF a.k = "pinf" THEN PInf
    ELSE IF a.n < 0 THEN NaN
    ELSE IF a.n = 0 THEN a
    ELSE IF a.q # 1 THEN Unrepresentable
    ELSE LET sn == SquarePart(a.n)
             sd == SquarePart(a.d)
             rn == a.n \div (sn * sn)
             rd == a.d \div (sd * sd)
         IN Mk(sn, sd * rd, rn * rd)

---------------------------------------------------------------------------
(* Bounds of the model and the inputs the calls draw from.                 *)

MaxSamples == 3     \* the longest samples slice
MaxPrior == 3       \* the longest prior slice
MaxCalls == 2       \* calls of Fit / FitPrior in one behaviour

WeightVals == {1}

Reals(s) == [i \in 1..Len(s) |-> Z(s[i])]

\* the samples 1, 2, ..., l
Samples == {[i \in 1..l |-> Z(i)] : l \in 0..MaxSamples}

\* no weights, and the weights w, w + 1, ...
Weights(samples) ==
    {<<>>} \cup {[i \in 1..Len(samples) |-> Z(w + i - 1)] : w \in WeightVals}

\* a weights slice one longer than samples
LongWeights(samples) == [i \in 1..(Len(samples) + 1) |-> Z(1)]

\* prior value [0, 1] with weight [1, 1], continued with ones, cut to any
\* two lengths, and the prior value [2, 1/2] with weight [1, 2]
Priors ==
    {<<[i \in 1..lv |-> IF i = 1 THEN Z(0) ELSE Z(1)], [i \in 1..lw |-> Z(1)]>> :
        lv \in 0..MaxPrior, lw \in 0..MaxPrior}
        \cup {<< <<Z(2), Q(1, 2)>>, <<Z(1), Z(2)>> >>}

\* the lengths the error checking of lines 99-117 lets through
WellFormed(samples, weights, priorValue, priorWeight) ==
    /\ Len(weights) \in {0, Len(samples)}
    /\ Len(priorValue) = Len(priorWeight)
    /\ Len(priorValue) <= 2

\* The arguments <<samples, weights, <<priorValue, priorWeight>> >> of one
\* call of FitPrior, fed being the prior pair a caller holds from the last
\* successful call.  Every well-formed combination is drawn; the malformed
\* ones, whose outcome the lengths alone decide, are drawn with one samples
\* slice: every pair of prior lengths without weights, and the weights one
\* too long without a prior and with the longest prior.
MalformedSamples == {Reals(<<1, 2>>)}

SampleArgs ==
    {<<s, w>> : s \in Samples, w \in {<<>>}} \cup
    UNION {{<<s, w>> : w \in Weights(s)} : s \in Samples} \cup
    {<<s, LongWeights(s)>> : s \in MalformedSamples}

FitArgs(fed) ==
    {a \in SampleArgs \X (Priors \cup {fed}) :
        \/ WellFormed(a[1][1], a[1][2], a[2][1], a[2][2])
        \/ /\ a[1][1] \in MalformedSamples
           /\ Len(a[1][2]) # Len(a[1][1])
           /\ Len(a[1][2]) = 0 \/ Len(a[2][1]) + Len(a[2][2]) \in {0, 2 * MaxPrior}}

\* the receivers a behaviour starts from: UnitNormal (line 27) and others
Normals ==
    {[Mu |-> Z(0), Sigma |-> Z(1)],
     [Mu |-> Z(2), Sigma |-> Sqrt(Q(2, 3))],
     [Mu |-> Z(1), Sigma |-> Z(2)],
     [Mu |-> Z(-1), Sigma |-> Q(1, 2)]}

---------------------------------------------------------------------------
(* The collaborators of FitPrior: floats.Sum, stat.Mean and stat.Moment    *)
(* (the uncorrected weighted central moment), a weights slice of length 0  *)
(* standing for no weights.                                                *)

RECURSIVE SumTo(_, _)
SumTo(s, i) == IF i = 0 THEN Z(0) ELSE Add(SumTo(s, i - 1), s[i])

Sum(s) == SumTo(s, Len(s))

WeightAt(weights, i) == IF Len(weights) = 0 THEN Z(1) ELSE weights[i]

Mean(x, weights) ==
    Div(Sum([i \in 1..Len(x) |-> Mul(WeightAt(weights, i), x[i])]),
        Sum([i \in 1..Len(x) |-> WeightAt(weights, i)]))

Moment2(x, mean, weights) ==
    Div(Sum([i \in 1..Len(x) |->
                Mul(WeightAt(weights, i), Mul(Sub(x[i], mean), Sub(x[i], mean)))]),
        Sum([i \in 1..Len(x) |-> WeightAt(weights, i)]))

---------------------------------------------------------------------------
(* Normal.FitPrior                                                          *)

NoFault == "none"
IndexFault == "runtime error: index out of range"

\* validate without the check of line 105
validateNoTooMany(samples, weights, priorValue, priorWeight) ==
    IF Len(weights) # 0 /\ Len(samples) # Len(weights)
    THEN [fault |-> "dist: slice size mismatch", prior |-> FALSE]
    ELSE IF Len(priorValue) # Len(priorWeight)
    THEN [fault |-> "normal: mismatch in prior lengths", prior |-> FALSE]
    ELSE [fault |-> NoFault, prior |-> Len(priorValue) # 0]

\* lines 99-117: the panics of the error checking, in the order of the code,
\* and whether a prior is used
validate(samples, weights, priorValue, priorWeight) ==
    LET lenPriorValue == Len(priorValue)
        lenPriorWeight == Len(priorWeight)
    IN IF Len(weights) # 0 /\ Len(samples) # Len(weights)
       THEN [fault |-> "dist: slice size mismatch", prior |-> FALSE]
       ELSE IF lenPriorValue # lenPriorWeight
       THEN [fault |-> "normal: mismatch in prior lengths", prior |-> FALSE]
       ELSE IF lenPriorValue > 2
       THEN [fault |-> "normal: too many prior values", prior |-> FALSE]
       ELSE IF lenPriorValue = 0 \/ lenPriorWeight = 0
       THEN (IF lenPriorValue = 0 /\ lenPriorWeight = 0
             THEN [fault |-> NoFault, prior |-> FALSE]
             ELSE IF lenPriorValue = 0 /\ lenPriorWeight # 0
             THEN [fault |-> "normal: prior weight provided but not the value",
                   prior |-> FALSE]
             ELSE [fault |-> "normal: prior value provided but not the weight",
                   prior |-> FALSE])
       ELSE [fault |-> NoFault, prior |-> TRUE]

\* lines 122-127
sumWeightsOf(samples, weights) ==
    IF Len(weights) = 0 THEN Z(Len(samples)) ELSE Sum(weights)

\* lines 129-134: totalWeight and totalSum
totalWeightOf(sumWeights, prior, priorWeight) ==
    IF prior THEN Add(sumWeights, priorWeight[1]) ELSE sumWeights

totalSumOf(sampleMean, sumWeights, prior, priorValue, priorWeight) ==
    IF prior
    THEN Add(Mul(sampleMean, sumWeights), Mul(priorValue[1], priorWeight[1]))
    ELSE Mul(sampleMean, sumWeights)

\* totalVarianceOf with the cross term weighted by totalWeight in place of
\* sumWeights
totalVarianceCrossByTotal(sampleVariance, sampleMean, sumWeights, totalWeight, prior, priorValue, priorWeight) ==
    IF prior
    THEN LET meanDiff == Sub(sampleMean, priorValue[1])
         IN Add(Add(Mul(sampleVariance, sumWeights),
                    Mul(Mul(priorWeight[2], priorValue[2]), priorValue[2])),
                Div(Mul(Mul(Mul(priorWeight[1], totalWeight), meanDiff), meanDiff),
                    totalWeight))
    ELSE Mul(sampleVariance, sumWeights)

\* lines 138-146, once priorWeight[1] and priorValue[1] of the code (the
\* second elements) are known to exist
totalVarianceOf(sampleVariance, sampleMean, sumWeights, totalWeight, prior, priorValue, priorWeight) ==
    IF prior
    THEN LET meanDiff == Sub(sampleMean, priorValue[1])
         IN Add(Add(Mul(sampleVariance, sumWeights),
                    Mul(Mul(priorWeight[2], priorValue[2]), priorValue[2])),
                Div(Mul(Mul(Mul(priorWeight[1], sumWeights), meanDiff), meanDiff),
                    totalWeight))
    ELSE Mul(sampleVariance, sumWeights)

\* newPriorWeightOf adding priorWeight[0] of the code to both elements
newPriorWeightFirstTwice(sumWeights, prior, priorWeight) ==
    IF prior
    THEN <<Add(sumWeights, priorWeight[1]), Add(sumWeights, priorWeight[1])>>
    ELSE <<sumWeights, sumWeights>>

\* lines 151-155
newPriorWeightOf(sumWeights, prior, priorWeight) ==
    IF prior
    THEN <<Add(sumWeights, priorWeight[1]), Add(sumWeights, priorWeight[2])>>
    ELSE <<sumWeights, sumWeights>>

---------------------------------------------------------------------------
(* float64 as decimal floating point, for zQuantile: a finite value is    *)
(* m * 10^e with 1000 <= |m| <= 9999, or 0; every operation rounds its    *)
(* exact result to the nearest such value, ties to even, as the IEEE      *)
(* operations of the code round to 53 bits.                                *)

FDigits == 4

RECURSIVE Pow10(_)
Pow10(k) == IF k = 0 THEN 1 ELSE 10 * Pow10(k - 1)

RECURSIVE NumDigits(_)
NumDigits(m) == IF m < 10 THEN 1 ELSE 1 + NumDigits(m \div 10)

FNaN == [k |-> "nan", m |-> 0, e |-> 0]
FPInf == [k |-> "pinf", m |-> 0, e |-> 0]
FNInf == [k |-> "ninf", m |-> 0, e |-> 0]
FZero == [k |-> "fin", m |-> 0, e |-> 0]

\* the float nearest to s * m * 10^e, for s in {-1, 1} and m >= 0
FRound(s, m, e) ==
    IF m = 0 THEN FZero
    ELSE IF NumDigits(m) <= FDigits
    THEN [k |-> "fin", m |-> s * m * Pow10(FDigits - NumDigits(m)),
          e |-> e - (FDigits - NumDigits(m))]
    ELSE LET drop == NumDigits(m) - FDigits
             quo == m \div Pow10(drop)
             rem == m % Pow10(drop)
             up == 2 * rem > Pow10(drop) \/ (2 * rem = Pow10(drop) /\ quo % 2 = 1)
         IN IF up /\ quo + 1 = Pow10(FDigits)
            THEN [k |-> "fin", m |-> s * Pow10(FDigits - 1), e |-> e + drop + 1]
            ELSE [k |-> "fin", m |-> s * (IF up THEN quo + 1 ELSE quo), e |-> e + drop]

\* the float nearest to m * 10^e
F(m, e) == FRound(IF m < 0 THEN -1 ELSE 1, Abs(m), e)

FIsFin(a) == a.k = "fin"
FSign(a) == IF a.k = "pinf" THEN 1 ELSE IF a.k = "ninf" THEN -1
            ELSE IF a.m > 0 THEN 1 ELSE IF a.m < 0 THEN -1 ELSE 0
FInfOf(s) == IF s > 0 THEN FPInf ELSE FNInf

FNeg(a) == IF a.k = "nan" THEN FNaN
           ELSE IF a.k = "pinf" THEN FNInf
           ELSE IF a.k = "ninf" THEN FPInf
           ELSE [a EXCEPT !.m = -a.m]

\* math.Abs
FAbs(a) == IF FSign(a) < 0 THEN FNeg(a) ELSE a

\* a + b for finite a and b, the exponent of a not less than that of b
FAddAligned(a, b) ==
    IF a.e - b.e > FDigits + 1 THEN a
    ELSE F(a.m * Pow10(a.e - b.e) + b.m, b.e)

FAdd(a, b) ==
    IF a.k = "nan" \/ b.k = "nan" THEN FNaN
    ELSE IF ~FIsFin(a) THEN (IF ~FIsFin(b) /\ a.k # b.k THEN FNaN ELSE a)
    ELSE IF ~FIsFin(b) THEN b
    ELSE IF a.m = 0 THEN b
    ELSE IF b.m = 0 THEN a
    ELSE IF a.e >= b.e THEN FAddAligned(a, b) ELSE FAddAligned(b, a)

FSub(a, b) == FAdd(a, FNeg(b))

FMul(a, b) ==
    IF a.k = "nan" \/ b.k = "nan" THEN FNaN
    ELSE IF ~FIsFin(a) \/ ~FIsFin(b)
    THEN (IF FSign(a) = 0 \/ FSign(b) = 0 THEN FNaN ELSE FInfOf(FSign(a) * FSign(b)))
    ELSE F(a.m * b.m, a.e + b.e)

\* the quotient of the significands has FDigits + 2 digits or more, and a
\* last digit that tells whether the division left a remainder
FDiv(a, b) ==
    IF a.k = "nan" \/ b.k = "nan" THEN FNaN
    ELSE IF ~FIsFin(b) THEN (IF ~FIsFin(a) THEN FNaN ELSE FZero)
    ELSE IF b.m = 0 THEN (IF FSign(a) = 0 THEN FNaN ELSE FInfOf(FSign(a)))
    ELSE IF ~FIsFin(a) THEN FInfOf(FSign(a) * FSign(b))
    ELSE FRound(FSign(a) * FSign(b),
                10 * ((Abs(a.m) * Pow10(FDigits + 1)) \div Abs(b.m))
                   + (IF (Abs(a.m) * Pow10(FDigits + 1)) % Abs(b.m) = 0 THEN 0 ELSE 1),
                a.e - b.e - (FDigits + 2))

\* a < b, a <= b, a = b of the code: false when either is NaN
FLt(a, b) ==
    /\ a.k # "nan" /\ b.k # "nan"
    /\ a # b
    /\ \/ a.k = "ninf" \/ b.k = "pinf"
       \/ FIsFin(a) /\ FIsFin(b) /\ FSub(a, b).m < 0
FEq(a, b) == a.k # "nan" /\ b.k # "nan" /\ a = b
FLe(a, b) == FLt(a, b) \/ FEq(a, b)

\* the next decimal digit of the root of m after its integer part s, where
\* rem = m - s * s
FSqrtDigit(s, rem) ==
    CHOOSE d \in 0..9 : /\ 20 * s * d + d * d <= 100 * rem
                        /\ d = 9 \/ 20 * s * (d + 1) + (d + 1) * (d + 1) > 100 * rem

\* math.Sqrt: the root of the significand scaled to an even exponent, to one
\* digit after the point, with a last digit that tells whether the root is
\* inexact
FSqrtScaled(m, e) ==
    LET s == ISqrt(m)
        d == FSqrtDigit(ISqrt(m), m - ISqrt(m) * ISqrt(m))
    IN FRound(1, 10 * (10 * s + d) + (IF 20 * s * d + d * d = 100 * (m - s * s) THEN 0 ELSE 1),
              (e \div 2) - 2)

FSqrt(a) ==
    IF a.k = "nan" \/ a.k = "ninf" THEN FNaN
    ELSE IF a.k = "pinf" THEN FPInf
    ELSE IF a.m < 0 THEN FNaN
    ELSE IF a.m = 0 THEN FZero
    ELSE IF a.e % 2 = 0 THEN FSqrtScaled(a.m * Pow10(FDigits), a.e - FDigits)
    ELSE FSqrtScaled(a.m * Pow10(FDigits + 1), a.e - FDigits - 1)

\* ln 2 and ln 10
FLn2 == F(6931, -4)
FLn10 == F(2303, -3)

\* ln y for 1 <= y < 2, by ln y = 2 atanh t with t = (y - 1) / (y + 1) and
\* atanh t = t (1 + t^2/3 + t^4/5 + t^6/7 + t^8/9)
FAtanhArg(y) == FDiv(FSub(y, F(1, 0)), FAdd(y, F(1, 0)))
FOddInv(k) == FDiv(F(1, 0), F(k, 0))
FStep(t2, c, acc) == FAdd(c, FMul(t2, acc))
FAtanhSeries(t2) ==
    FStep(t2, F(1, 0), FStep(t2, FOddInv(3), FStep(t2, FOddInv(5),
                                                   FStep(t2, FOddInv(7), FOddInv(9)))))
FLogNear1(y) ==
    FMul(FMul(F(2, 0), FAtanhArg(y)), FAtanhSeries(FMul(FAtanhArg(y), FAtanhArg(y))))

\* ln y for 1 <= y < 10, halving y until it is under 2
RECURSIVE FLogMantissa(_)
FLogMantissa(y) ==
    IF FLt(y, F(2, 0)) THEN FLogNear1(y)
    ELSE FAdd(FLn2, FLogMantissa(FDiv(y, F(2, 0))))

\* math.Log, as ln(m / 10^(FDigits-1)) + (e + FDigits - 1) ln 10
FLog(a) ==
    IF a.k = "nan" \/ a.k = "ninf" THEN FNaN
    ELSE IF a.k = "pinf" THEN FPInf
    ELSE IF a.m < 0 THEN FNaN
    ELSE IF a.m = 0 THEN FNInf
    ELSE FAdd(FLogMantissa(F(a.m, 1 - FDigits)),
              FMul(F(a.e + FDigits - 1, 0), FLn10))

\* the float nearest to an exact value (n/d) * sqrt(q)
ToFloat(a) ==
    IF a.k = "nan" THEN FNaN
    ELSE IF a.k = "pinf" THEN FPInf
    ELSE IF a.k = "ninf" THEN FNInf
    ELSE FMul(FDiv(F(a.n, 0), F(a.d, 0)), FSqrt(F(a.q, 0)))

\* the arguments of Quantile: powers of ten down to the tail of the
\* distribution, their complements to 1, the ends and the middle of [0, 1],
\* both sides of the regime boundaries 0.075 and 0.925, values outside
\* [0, 1], and the non-finite values
MaxTailExp == 12
Percentiles ==
    {F(1, -j) : j \in 1..MaxTailExp} \cup
    {FSub(F(1, 0), F(1, -j)) : j \in 1..FDigits} \cup
    {FZero, F(1, 0), F(5, -1), F(25, -2), F(75, -2),
     F(75, -3), F(925, -3), F(7499, -5), F(9251, -4),
     F(-1, -1), F(-1, 0), F(11, -1), F(2, 0), FNaN, FPInf, FNInf}

\* the arguments of DLogProbDParam: x, and the length of deriv
MaxX == 2
MaxDeriv == 3
Xs == {Z(i) : i \in (-MaxX)..MaxX} \cup {Q(1, 2)}

\* the arguments of rateval: slices of MaxNa coefficients first, first + step,
\* ..., of which the first na are used, and x
MaxNa == 3
CoefSlice(first, step) == [i \in 1..MaxNa |-> F(first + (i - 1) * step, 0)]
NumeratorSlices == {CoefSlice(-1, 1), CoefSlice(2, 1)}
DenominatorSlices == {CoefSlice(2, -1), CoefSlice(-1, 1)}
RatevalXs == {F(i, 0) : i \in (-MaxX)..MaxX}

---------------------------------------------------------------------------
(* The quantile function (lines 211-217 and 297-368).                      *)

\* the coefficient tables, each coefficient rounded to a float
\* line 298
zQuantSmallA ==
    <<F(3387, -3), F(1331, -1), F(1972, 0), F(1373, 1),
      F(4592, 1), F(6727, 1), F(3343, 1), F(2509, 0)>>

\* line 299
zQuantSmallB ==
    <<F(1000, -3), F(4231, -2), F(6872, -1), F(5394, 0),
      F(2121, 1), F(3931, 1), F(2873, 1), F(5226, 0)>>

\* line 300
zQuantInterA ==
    <<F(1423, -3), F(4630, -3), F(5769, -3), F(3648, -3),
      F(1270, -3), F(2418, -4), F(2272, -5), F(7745, -7)>>

\* line 301
zQuantInterB ==
    <<F(1000, -3), F(2053, -3), F(1676, -3), F(6898, -4),
      F(1481, -4), F(1520, -5), F(5476, -7), F(1051, -12)>>

\* line 302
zQuantTailA ==
    <<F(6658, -3), F(5464, -3), F(1785, -3), F(2966, -4),
      F(2653, -5), F(1243, -6), F(2712, -8), F(2010, -10)>>

\* line 303
zQuantTailB ==
    <<F(1000, -3), F(5998, -4), F(1369, -4), F(1488, -5),
      F(7869, -7), F(1846, -8), F(1422, -10), F(2044, -18)>>

\* lines 312-314 and 318-320: one loop of rateval, the slice a indexed from 1
RECURSIVE ratevalLoop(_, _, _, _)
ratevalLoop(a, i, x, u) ==
    IF i > 0 THEN ratevalLoop(a, i - 1, x, FAdd(FMul(x, u), a[i])) ELSE u

\* rateval taking index 0 for the leading term and index na - 1 for the
\* constant term
ratevalReversed(a, na, b, nb, x) ==
    FDiv(ratevalLoop([i \in 1..na |-> a[na + 1 - i]], na - 1, x, a[1]),
         ratevalLoop([j \in 1..nb |-> b[nb + 1 - j]], nb - 1, x, b[1]))

\* lines 306-325
rateval(a, na, b, nb, x) ==
    FDiv(ratevalLoop(a, na - 1, x, a[na]), ratevalLoop(b, nb - 1, x, b[nb]))

\* lines 327-330
zQuantSmall(q) ==
    FMul(q, rateval(zQuantSmallA, 8, zQuantSmallB, 8, FSub(F(180625, -6), FMul(q, q))))

\* lines 332-334
zQuantIntermediate(r) == rateval(zQuantInterA, 8, zQuantInterB, 8, FSub(r, F(16, -1)))

\* lines 336-338
zQuantTail(r) == rateval(zQuantTailA, 8, zQuantTailB, 8, FSub(r, F(5, 0)))

\* zQuantile with < in place of <= in the test of line 351
zQuantileStrict(p) ==
    IF FEq(p, F(1, 0)) THEN [x |-> FPInf, path |-> "one"]
    ELSE IF FEq(p, FZero) THEN [x |-> FNInf, path |-> "zero"]
    ELSE IF FLt(FAbs(FSub(p, F(5, -1))), F(425, -3))
    THEN [x |-> zQuantSmall(FSub(p, F(5, -1))), path |-> "zQuantSmall"]
    ELSE LET pp == IF FLt(p, F(5, -1)) THEN p ELSE FSub(F(1, 0), p)
             r == FSqrt(FNeg(FLog(IF FLt(p, F(5, -1)) THEN p ELSE FSub(F(1, 0), p))))
         IN IF FLe(r, F(5, 0))
            THEN [x |-> IF FLt(p, F(5, -1)) THEN FNeg(zQuantIntermediate(r))
                        ELSE zQuantIntermediate(r),
                  path |-> "zQuantIntermediate"]
            ELSE [x |-> IF FLt(p, F(5, -1)) THEN FNeg(zQuantTail(r)) ELSE zQuantTail(r),
                  path |-> "zQuantTail"]

\* lines 341-368: the value returned, and which of the three functions
\* computed it
zQuantile(p) ==
    IF FEq(p, F(1, 0)) THEN [x |-> FPInf, path |-> "one"]
    ELSE IF FEq(p, FZero) THEN [x |-> FNInf, path |-> "zero"]
    ELSE IF FLe(FAbs(FSub(p, F(5, -1))), F(425, -3))
    THEN [x |-> zQuantSmall(FSub(p, F(5, -1))), path |-> "zQuantSmall"]
    ELSE LET pp == IF FLt(p, F(5, -1)) THEN p ELSE FSub(F(1, 0), p)
             r == FSqrt(FNeg(FLog(IF FLt(p, F(5, -1)) THEN p ELSE FSub(F(1, 0), p))))
         IN IF FLe(r, F(5, 0))
            THEN [x |-> IF FLt(p, F(5, -1)) THEN FNeg(zQuantIntermediate(r))
                        ELSE zQuantIntermediate(r),
                  path |-> "zQuantIntermediate"]
            ELSE [x |-> IF FLt(p, F(5, -1)) THEN FNeg(zQuantTail(r)) ELSE zQuantTail(r),
                  path |-> "zQuantTail"]

\* Quantile without the test p > 1 of line 213
QuantileNoUpper(nn, p) ==
    IF FLt(p, FZero)
    THEN [fault |-> "dist: percentile out of bounds", z |-> "none", value |-> "none"]
    ELSE [fault |-> NoFault, z |-> zQuantile(p).x,
          value |-> FAdd(ToFloat(nn.Mu), FMul(ToFloat(nn.Sigma), zQuantile(p).x))]

\* lines 212-217, for the receiver nn: the panic or the value returned, and
\* the value of zQuantile(p) in it
QuantileOf(nn, p) ==
    IF FLt(p, FZero) \/ FLt(F(1, 0), p)
    THEN [fault |-> "dist: percentile out of bounds", z |-> "none", value |-> "none"]
    ELSE [fault |-> NoFault, z |-> zQuantile(p).x,
          value |-> FAdd(ToFloat(nn.Mu), FMul(ToFloat(nn.Sigma), zQuantile(p).x))]

---------------------------------------------------------------------------
(* DLogProbDParam (lines 55-64), in exact arithmetic.                      *)

NumParameters == 2

\* lines 60-61, for the receiver nn
derivOf(nn, x) ==
    <<Div(Mul(nn.Mu, Sub(x, nn.Mu)), Mul(nn.Sigma, nn.Sigma)),
      Mul(Div(Z(1), nn.Sigma),
          Add(Z(-1), Div(Mul(Sub(x, nn.Mu), Sub(x, nn.Mu)), Z(2))))>>

---------------------------------------------------------------------------
(* The state machine.                                                       *)

NoRet == [value |-> <<>>, weight |-> <<>>]
NoCall == [op |-> "none"]

\* the zero values of EigenSym (lines 33-38) and Eigen (lines 120-129): a
\* nil slice is the empty sequence, a matrix is its dimension, "nil" for a
\* nil pointer
ZeroEigenSym == [vectorsComputed |-> FALSE, values |-> <<>>, vectors |-> "nil"]
ZeroEigen ==
    [n |-> 0, right |-> FALSE, left |-> FALSE, values |-> <<>>,
     rVectors |-> "nil", lVectors |-> "nil"]

Init ==
    /\ n \in Normals
    /\ calls = 0
    /\ ret = NoRet
    /\ call = NoCall
    /\ esym = ZeroEigenSym
    /\ eig = ZeroEigen
    /\ ecall = NoCall
    /\ lastOk = [sym |-> "none", eig |-> "none"]

\* The record of a call of Fit or FitPrior in the variable call.
FitCall(op, samples, weights, priorValue, priorWeight, fedBack, fault, newPriorValue, newPriorWeight) ==
    [op |-> op, samples |-> samples, weights |-> weights,
     priorValue |-> priorValue, priorWeight |-> priorWeight, fedBack |-> fedBack,
     fault |-> fault, newPriorValue |-> newPriorValue, newPriorWeight |-> newPriorWeight]

\* lines 93-157: one call of FitPrior on the receiver n, made by op, which
\* keeps the returned pair in ret when keep is set.  A panic of the error
\* checking leaves the receiver alone.  Line 136 assigns Mu before line 141
\* indexes the second elements of the prior, so a prior of one element
\* panics there, Mu assigned and Sigma not.
FitPriorBody(op, keep, samples, weights, priorValue, priorWeight, fedBack) ==
    \E v \in {validate(samples, weights, priorValue, priorWeight)} :
       IF v.fault # NoFault
       THEN /\ n' = n
            /\ ret' = ret
            /\ call' = FitCall(op, samples, weights, priorValue, priorWeight, fedBack,
                               v.fault, <<>>, <<>>)
       ELSE \E sampleMean \in {Mean(samples, weights)},
               sumWeights \in {sumWeightsOf(samples, weights)} :
            \E sampleVariance \in {Moment2(samples, sampleMean, weights)},
               totalWeight \in {totalWeightOf(sumWeights, v.prior, priorWeight)},
               totalSum \in {totalSumOf(sampleMean, sumWeights, v.prior, priorValue, priorWeight)} :
            \E mu \in {Div(totalSum, totalWeight)} :
               IF v.prior /\ (Len(priorWeight) < 2 \/ Len(priorValue) < 2)
               THEN /\ n' = [n EXCEPT !.Mu = mu]
                    /\ ret' = ret
                    /\ call' = FitCall(op, samples, weights, priorValue, priorWeight,
                                       fedBack, IndexFault, <<>>, <<>>)
               ELSE \E totalVariance \in {totalVarianceOf(sampleVariance, sampleMean,
                                             sumWeights, totalWeight, v.prior,
                                             priorValue, priorWeight)} :
                    \E sigma \in {Sqrt(Div(totalVariance, totalWeight))},
                       newPriorWeight \in {newPriorWeightOf(sumWeights, v.prior, priorWeight)} :
                       /\ n' = [Mu |-> mu, Sigma |-> sigma]
                       /\ ret' = IF keep
                                 THEN [value |-> <<mu, sigma>>, weight |-> newPriorWeight]
                                 ELSE ret
                       /\ call' = FitCall(op, samples, weights, priorValue, priorWeight,
                                          fedBack, NoFault, <<mu, sigma>>, newPriorWeight)

\* n.FitPrior(samples, weights, priorValue, priorWeight), the prior being a
\* fresh one or the pair the caller kept from the last successful call
FitPrior ==
    /\ calls < MaxCalls
    /\ \E a \in FitArgs(<<ret.value, ret.weight>>) :
          FitPriorBody("FitPrior", TRUE, a[1][1], a[1][2], a[2][1], a[2][2],
                       ret # NoRet /\ a[2] = <<ret.value, ret.weight>>)
    /\ calls' = calls + 1
    /\ UNCHANGED <<esym, eig, ecall, lastOk>>

\* lines 79-81: n.Fit(samples, weights) is FitPrior with no prior, its
\* result dropped
Fit ==
    /\ calls < MaxCalls
    /\ \E a \in SampleArgs :
          FitPriorBody("Fit", FALSE, a[1], a[2], <<>>, <<>>, FALSE)
    /\ calls' = calls + 1
    /\ UNCHANGED <<esym, eig, ecall, lastOk>>

NextFit == Fit \/ FitPrior

SpecFit == Init /\ [][NextFit]_vars

\* lines 55-64: deriv is a slice of lenDeriv zeros before the call
DLogProbDParam ==
    /\ \E x \in Xs, lenDeriv \in 0..MaxDeriv :
          call' = [op |-> "DLogProbDParam", x |-> x, lenDeriv |-> lenDeriv,
                   fault |-> IF lenDeriv # NumParameters
                             THEN "dist: slice length mismatch" ELSE NoFault,
                   deriv |-> IF lenDeriv # NumParameters
                             THEN [i \in 1..lenDeriv |-> Z(0)] ELSE derivOf(n, x)]
    /\ UNCHANGED <<n, calls, ret, esym, eig, ecall, lastOk>>

\* lines 212-217
Quantile ==
    /\ \E p \in Percentiles :
          \E r \in {QuantileOf(n, p)} :
             call' = [op |-> "Quantile", p |-> p, fault |-> r.fault, z |-> r.z,
                      value |-> r.value,
                      path |-> IF r.fault = NoFault THEN zQuantile(p).path ELSE "none"]
    /\ UNCHANGED <<n, calls, ret, esym, eig, ecall, lastOk>>

NextEval == DLogProbDParam \/ Quantile
SpecEval == Init /\ [][NextEval]_vars

\* lines 306-325: one call of rateval; the function reads a and b and
\* assigns to neither, so the slices after the call are the slices before
RatevalCall ==
    /\ \E a \in NumeratorSlices, b \in DenominatorSlices :
          \E na \in 1..Len(a), nb \in 1..Len(b), x \in RatevalXs :
             call' = [op |-> "rateval", a |-> a, na |-> na, b |-> b, nb |-> nb, x |-> x,
                      r |-> rateval(a, na, b, nb, x), aAfter |-> a, bAfter |-> b]
    /\ UNCHANGED <<n, calls, ret, esym, eig, ecall, lastOk>>

\* rateval has no receiver: the behaviours start from UnitNormal alone
InitRateval == Init /\ n = [Mu |-> Z(0), Sigma |-> Z(1)]
NextRateval == RatevalCall
SpecRateval == InitRateval /\ [][NextRateval]_vars

---------------------------------------------------------------------------
(* EigenSym and Eigen (mat64/eigen.go).  The matrix factorized is           *)
(* diag(1, ..., size); lapack64 may fail on any matrix.                     *)

MaxN == 2

badFact == "mat64: use without successful factorization"
badNoVect == "mat64: eigenvectors not computed"
ErrShape == "matrix: dimension mismatch"
ErrSliceLengthMismatch == "matrix: slice length mismatch"

\* the eigenvalues of diag(1, ..., size)
Eigenvalues(size) == [i \in 1..size |-> i]

\* lines 77-79 and 132-134
succFact(e) == Len(e.values) # 0

\* the arguments dst of Values: nil, or a slice of some length
Dsts == {[nil |-> TRUE, len |-> 0]} \cup {[nil |-> FALSE, len |-> l] : l \in 0..MaxN}

\* lines 49-74, ok the result of lapack64.Syev
EigenSymFactorize ==
    /\ \E size \in 0..MaxN, vectors \in BOOLEAN, ok \in BOOLEAN :
          /\ esym' = IF ~ok THEN [vectorsComputed |-> FALSE, values |-> <<>>,
                                  vectors |-> "nil"]
                     ELSE [vectorsComputed |-> vectors, values |-> Eigenvalues(size),
                           vectors |-> size]
          /\ lastOk' = [lastOk EXCEPT !.sym = IF ok THEN "true" ELSE "false"]
          /\ ecall' = [obj |-> "EigenSym", op |-> "Factorize", size |-> size,
                       fault |-> NoFault, ok |-> ok]
    /\ UNCHANGED <<n, calls, ret, call, eig>>

\* lines 88-100 and 212-224: the panic of Values, or the slice it returns,
\* for the values and the length they must have
ValuesOf(e, len, dst) ==
    IF ~succFact(e) THEN [fault |-> badFact, dst |-> <<>>]
    ELSE IF (IF dst.nil THEN len ELSE dst.len) # len
    THEN [fault |-> ErrSliceLengthMismatch, dst |-> <<>>]
    ELSE [fault |-> NoFault, dst |-> e.values]

\* lines 88-100
EigenSymValues ==
    /\ \E dst \in Dsts :
          ecall' = [obj |-> "EigenSym", op |-> "Values", arg |-> dst,
                    fault |-> ValuesOf(esym, Len(esym.values), dst).fault,
                    dst |-> ValuesOf(esym, Len(esym.values), dst).dst]
    /\ UNCHANGED <<n, calls, ret, call, esym, eig, lastOk>>

\* lines 108-117, the receiver an empty matrix
EigenvectorsSym ==
    /\ ecall' = [obj |-> "EigenSym", op |-> "EigenvectorsSym",
                 fault |-> IF ~succFact(esym) THEN badFact
                           ELSE IF ~esym.vectorsComputed THEN badNoVect
                           ELSE NoFault,
                 m |-> IF succFact(esym) /\ esym.vectorsComputed
                       THEN Len(esym.values) ELSE 0]
    /\ UNCHANGED <<n, calls, ret, call, esym, eig, lastOk>>

\* lines 156-203, first the result of lapack64.Geev
EigenFactorize ==
    /\ \E r \in 0..MaxN, c \in 0..MaxN, left \in BOOLEAN, right \in BOOLEAN, first \in 0..1 :
          IF r # c
          THEN /\ ecall' = [obj |-> "Eigen", op |-> "Factorize", size |-> r,
                            fault |-> ErrShape, ok |-> FALSE]
               /\ UNCHANGED <<eig, lastOk>>
          ELSE /\ eig' = IF first # 0 THEN [eig EXCEPT !.values = <<>>]
                         ELSE [n |-> r, right |-> right, left |-> left,
                               values |-> Eigenvalues(r),
                               rVectors |-> IF right THEN c ELSE 0,
                               lVectors |-> IF left THEN r ELSE 0]
               /\ lastOk' = [lastOk EXCEPT !.eig = IF first = 0 THEN "true" ELSE "false"]
               /\ ecall' = [obj |-> "Eigen", op |-> "Factorize", size |-> r,
                            fault |-> NoFault, ok |-> first = 0]
    /\ UNCHANGED <<n, calls, ret, call, esym>>

\* lines 212-224
EigenValues ==
    /\ \E dst \in Dsts :
          ecall' = [obj |-> "Eigen", op |-> "Values", arg |-> dst,
                    fault |-> ValuesOf(eig, eig.n, dst).fault,
                    dst |-> ValuesOf(eig, eig.n, dst).dst]
    /\ UNCHANGED <<n, calls, ret, call, esym, eig, lastOk>>

\* lines 245-253
Vectors ==
    /\ ecall' = [obj |-> "Eigen", op |-> "Vectors",
                 fault |-> IF ~succFact(eig) THEN badFact
                           ELSE IF ~eig.right THEN badNoVect
                           ELSE NoFault,
                 m |-> IF succFact(eig) /\ eig.right THEN eig.rVectors ELSE 0]
    /\ UNCHANGED <<n, calls, ret, call, esym, eig, lastOk>>

\* lines 262-270
LeftVectors ==
    /\ ecall' = [obj |-> "Eigen", op |-> "LeftVectors",
                 fault |-> IF ~succFact(eig) THEN badFact
                           ELSE IF ~eig.left THEN badNoVect
                           ELSE NoFault,
                 m |-> IF succFact(eig) /\ eig.left THEN eig.lVectors ELSE 0]
    /\ UNCHANGED <<n, calls, ret, call, esym, eig, lastOk>>

NextEigen ==
    \/ EigenSymFactorize \/ EigenSymValues \/ EigenvectorsSym
    \/ EigenFactorize \/ EigenValues \/ Vectors \/ LeftVectors
SpecEigen == Init /\ [][NextEigen]_vars

---------------------------------------------------------------------------
(* Properties of Fit and FitPrior, under SpecFit.                           *)

IsFitCall == call.op \in {"Fit", "FitPrior"}

\* the sum of the weights, the number of samples when there are no weights
SumW == Sum([i \in 1..Len(call.samples) |-> WeightAt(call.weights, i)])

\* the elements of the prior of the call, 0 where no prior is given
PriorValueAt(i) == IF Len(call.priorValue) = 0 THEN Z(0) ELSE call.priorValue[i]
PriorWeightAt(i) == IF Len(call.priorWeight) = 0 THEN Z(0) ELSE call.priorWeight[i]

\* C2: FitPrior panics when weights is not empty and not of the length of
\* samples, when the prior slices differ in length, when either is longer
\* than 2, and when just one of them is empty.
C2_MalformedFaults ==
    IsFitCall =>
        (( \/ Len(call.weights) # 0 /\ Len(call.weights) # Len(call.samples)
           \/ Len(call.priorValue) # Len(call.priorWeight)
           \/ Len(call.priorValue) > 2
           \/ Len(call.priorWeight) > 2
           \/ (Len(call.priorValue) = 0) # (Len(call.priorWeight) = 0))
         => call.fault # NoFault)

\* a call with prior slices both of length 3 has panicked
C2_Witness ==
    /\ call.op = "FitPrior"
    /\ Len(call.weights) = 0
    /\ Len(call.priorValue) = 3
    /\ Len(call.priorWeight) = 3
    /\ call.fault = "normal: too many prior values"

\* C3: a call of FitPrior that panics leaves Mu and Sigma of the receiver
\* as they were before the call.
C3_FaultKeepsReceiver ==
    [][(call'.op \in {"Fit", "FitPrior"} /\ calls' = calls + 1 /\ call'.fault # NoFault)
           => n' = n]_vars

\* C4: FitPrior with weights empty or of the length of samples and prior
\* slices of equal length 0, 1 or 2 returns, without a panic, two slices
\* of length 2.
C4_WellFormedAccepted ==
    (IsFitCall /\ WellFormed(call.samples, call.weights, call.priorValue, call.priorWeight))
        => /\ call.fault = NoFault
           /\ Len(call.newPriorValue) = 2
           /\ Len(call.newPriorWeight) = 2

\* C5: after a call that returned, with m the weighted mean of the samples,
\* v their uncorrected weighted second central moment and sumW the sum of
\* the weights, Mu = (m*sumW + pv0*pw0) / (sumW + pw0) and Sigma^2 =
\* (v*sumW + pw1*pv1^2 + pw0*sumW*(m - pv0)^2 / (sumW + pw0)) / (sumW + pw0),
\* the prior terms 0 without a prior; Fit on [1, 2, 3] without weights gives
\* the mean 2 and the variance 2/3.
C5_FitFormula ==
    (IsFitCall /\ call.fault = NoFault) =>
        LET m == Mean(call.samples, call.weights)
            v == Moment2(call.samples, Mean(call.samples, call.weights), call.weights)
            tw == Add(SumW, PriorWeightAt(1))
            md == Sub(Mean(call.samples, call.weights), PriorValueAt(1))
        IN /\ n.Mu = Div(Add(Mul(m, SumW), Mul(PriorValueAt(1), PriorWeightAt(1))), tw)
           /\ Mul(n.Sigma, n.Sigma) =
                 Div(Add(Add(Mul(v, SumW),
                             Mul(PriorWeightAt(2), Mul(PriorValueAt(2), PriorValueAt(2)))),
                         Div(Mul(Mul(PriorWeightAt(1), SumW), Mul(md, md)), tw)),
                     tw)
           /\ (call.samples = <<Z(1), Z(2), Z(3)>> /\ call.weights = <<>>
                  /\ call.priorValue = <<>>)
                 => (n.Mu = Z(2) /\ Mul(n.Sigma, n.Sigma) = Q(2, 3))

\* FitPrior on [1, 2, 3] with the prior [0, 1] of weights [1, 1], whose mean
\* differs from the mean of the samples, has returned
C5_Witness ==
    /\ call.op = "FitPrior"
    /\ call.fault = NoFault
    /\ call.samples = <<Z(1), Z(2), Z(3)>>
    /\ call.priorValue = <<Z(0), Z(1)>>
    /\ call.priorWeight = <<Z(1), Z(1)>>
    /\ n.Mu = Q(3, 2)

\* C6: a call that returned has returned newPriorValue = [Mu, Sigma], the
\* fields of the receiver after it, and newPriorWeight = [sumW + pw0,
\* sumW + pw1] with a prior and [sumW, sumW] without; the returned pair
\* passes the error checking of a next call, which returns.
C6_ReturnedPrior ==
    /\ (IsFitCall /\ call.fault = NoFault) =>
          /\ call.newPriorValue = <<n.Mu, n.Sigma>>
          /\ call.newPriorWeight =
                <<Add(SumW, PriorWeightAt(1)), Add(SumW, PriorWeightAt(2))>>
          /\ (Len(call.priorValue) = 0) => call.newPriorWeight = <<SumW, SumW>>
          /\ validate(call.samples, call.weights, call.newPriorValue,
                      call.newPriorWeight).fault = NoFault
          /\ call.op = "FitPrior"
                => ret = [value |-> call.newPriorValue, weight |-> call.newPriorWeight]
    /\ (IsFitCall /\ call.fedBack /\ Len(call.weights) \in {0, Len(call.samples)})
          => call.fault = NoFault

\* a call whose prior is the pair the call before returned, itself made with
\* a prior of two different weights, has returned
C6_Witness ==
    /\ call.op = "FitPrior"
    /\ call.fedBack
    /\ call.fault = NoFault
    /\ Len(call.samples) > 0
    /\ call.priorWeight[1] # call.priorWeight[2]

---------------------------------------------------------------------------
(* Properties of Quantile and DLogProbDParam, under SpecEval.               *)

\* C1: Quantile(p) panics for p < 0 and for p > 1 and for no p in [0, 1];
\* zQuantile is -Inf at p = 0 and +Inf at p = 1, and for every p in [0, 1]
\* Quantile returns Mu + Sigma * zQuantile(p).
C1_QuantileDomain ==
    call.op = "Quantile" =>
        /\ (FLt(call.p, FZero) \/ FLt(F(1, 0), call.p)) => call.fault # NoFault
        /\ (FLe(FZero, call.p) /\ FLe(call.p, F(1, 0))) =>
              /\ call.fault = NoFault
              /\ call.z = zQuantile(call.p).x
              /\ call.value = FAdd(ToFloat(n.Mu), FMul(ToFloat(n.Sigma), call.z))
        /\ call.p = FZero => call.z = FNInf
        /\ call.p = F(1, 0) => call.z = FPInf

\* Quantile(1.1) has panicked
C1_Witness ==
    /\ call.op = "Quantile"
    /\ call.p = F(11, -1)
    /\ call.fault = "dist: percentile out of bounds"

\* C7: DLogProbDParam(x, deriv) panics when len(deriv) is not 2, and
\* otherwise sets deriv[0] = (x - Mu) / Sigma^2 and
\* deriv[1] = -1/Sigma + (x - Mu)^2 / Sigma^3.
C7_Derivatives ==
    call.op = "DLogProbDParam" =>
        /\ call.lenDeriv # 2 => call.fault # NoFault
        /\ call.lenDeriv = 2 =>
              /\ call.fault = NoFault
              /\ call.deriv[1] = Div(Sub(call.x, n.Mu), Mul(n.Sigma, n.Sigma))
              /\ call.deriv[2] =
                    Add(Neg(Div(Z(1), n.Sigma)),
                        Div(Mul(Sub(call.x, n.Mu), Sub(call.x, n.Mu)),
                            Mul(n.Sigma, Mul(n.Sigma, n.Sigma))))

\* C10: for 0 < p < 1 and dp = p - 0.5, zQuantile returns
\* dp * rateval(zQuantSmallA, zQuantSmallB, 0.180625 - dp^2) when
\* |dp| <= 0.425; otherwise, with pp = min(p, 1 - p) and r = sqrt(-ln pp),
\* the intermediate tables at r - 1.6 when r <= 5 and the tail tables at
\* r - 5 when r > 5, negated exactly when p < 0.5; Quantile(0.5) is Mu.
C10_Regimes ==
    (call.op = "Quantile" /\ FLt(FZero, call.p) /\ FLt(call.p, F(1, 0))) =>
        LET dp == FSub(call.p, F(5, -1))
            pp == IF FLt(call.p, FSub(F(1, 0), call.p)) THEN call.p
                  ELSE FSub(F(1, 0), call.p)
            r == FSqrt(FNeg(FLog(IF FLt(call.p, FSub(F(1, 0), call.p)) THEN call.p
                                 ELSE FSub(F(1, 0), call.p))))
            central == FLe(FAbs(FSub(call.p, F(5, -1))), F(425, -3))
            signed(x) == IF FLt(call.p, F(5, -1)) THEN FNeg(x) ELSE x
        IN /\ central =>
                 /\ call.path = "zQuantSmall"
                 /\ call.z = FMul(dp, rateval(zQuantSmallA, 8, zQuantSmallB, 8,
                                              FSub(F(180625, -6), FMul(dp, dp))))
           /\ (~central /\ FLe(r, F(5, 0))) =>
                 /\ call.path = "zQuantIntermediate"
                 /\ call.z = signed(rateval(zQuantInterA, 8, zQuantInterB, 8,
                                            FSub(r, F(16, -1))))
           /\ (~central /\ ~FLe(r, F(5, 0))) =>
                 /\ call.path = "zQuantTail"
                 /\ call.z = signed(rateval(zQuantTailA, 8, zQuantTailB, 8,
                                            FSub(r, F(5, 0))))
           /\ call.p = F(5, -1) => call.value = ToFloat(n.Mu)

\* Quantile(10^-12) has taken the tail tables and returned a negated value
C10_Witness ==
    /\ call.op = "Quantile"
    /\ call.p = F(1, -12)
    /\ call.path = "zQuantTail"
    /\ FLt(call.z, FZero)
    /\ call.value = FAdd(ToFloat(n.Mu), FMul(ToFloat(n.Sigma), call.z))

---------------------------------------------------------------------------
(* Properties of EigenSym and Eigen, under SpecEigen.                       *)

\* the last call was a method that requires a factorization
NeedsFactorization == ecall # NoCall /\ ecall.op # "Factorize"
LastOkOf(obj) == IF obj = "EigenSym" THEN lastOk.sym ELSE lastOk.eig

\* C9: Values, EigenvectorsSym, Vectors and LeftVectors panic with badFact
\* when no Factorize was made on the receiver or the last one returned
\* false, and Values does not panic with badFact when the last Factorize
\* returned true.
C9_BadFactorization ==
    NeedsFactorization =>
        /\ LastOkOf(ecall.obj) # "true" => ecall.fault = badFact
        /\ (ecall.op = "Values" /\ LastOkOf(ecall.obj) = "true") => ecall.fault # badFact

\* the first half of C9 alone: without a Factorize that returned true as the
\* last one, every method that requires a factorization panics with badFact
StaleResultsUnusable ==
    (NeedsFactorization /\ LastOkOf(ecall.obj) # "true") => ecall.fault = badFact

\* Values has panicked with badFact on a receiver whose earlier Factorize
\* returned true and whose last one returned false
StaleResultsReached ==
    /\ ecall # NoCall
    /\ ecall.op = "Values"
    /\ ecall.obj = "Eigen"
    /\ eig.n > 0
    /\ lastOk.eig = "false"
    /\ ecall.fault = badFact

---------------------------------------------------------------------------
(* Properties of rateval, under SpecRateval.  The coefficients and x drawn  *)
(* are small integers, on which no operation before the division rounds.    *)

\* x^k by repeated multiplication
RECURSIVE FPow(_, _)
FPow(x, k) == IF k = 0 THEN F(1, 0) ELSE FMul(x, FPow(x, k - 1))

\* a[0] + a[1] x + ... + a[k-1] x^(k-1), the slice a indexed from 1
RECURSIVE PolySum(_, _, _)
PolySum(a, k, x) ==
    IF k = 0 THEN FZero ELSE FAdd(PolySum(a, k - 1, x), FMul(a[k], FPow(x, k - 1)))

\* C11: rateval(a, na, b, nb, x) returns P(x) / Q(x) with P(x) the sum of
\* a[i] x^i for i < na and Q(x) the sum of b[j] x^j for j < nb, index 0 the
\* constant term, for na >= 1, nb >= 1 and Q(x) # 0; it returns a value, and
\* a and b are after the call what they were before.
C11_RatevalQuotient ==
    (call.op = "rateval" /\ call.na >= 1 /\ call.nb >= 1
        /\ PolySum(call.b, call.nb, call.x) # FZero) =>
        /\ call.r = FDiv(PolySum(call.a, call.na, call.x), PolySum(call.b, call.nb, call.x))
        /\ FIsFin(call.r)
        /\ call.aAfter = call.a
        /\ call.bAfter = call.b

\* rateval([2, 3, 4], 3, [2, 1, 0], 2, 2) has returned (2 + 6 + 16) / (2 + 2)
C11_Witness ==
    /\ call.op = "rateval"
    /\ call.a = <<F(2, 0), F(3, 0), F(4, 0)>>
    /\ call.na = 3
    /\ call.b = <<F(2, 0), F(1, 0), F(0, 0)>>
    /\ call.nb = 2
    /\ call.x = F(2, 0)
    /\ call.r = F(6, 0)

=============================================================================
